---- MODULE Spec2Model ----
(***************************************************************************)
(* Model of dictionary/static/dictionary/js/accessibility.js: the event    *)
(* listeners the file registers at page load, and the DOM state they read  *)
(* and write (class lists, inline styles, listener registry, location,     *)
(* window.onbeforeunload).  One action per DOM event; an action runs every *)
(* listener the event reaches, to completion.                              *)
(***************************************************************************)
EXTENDS Integers, Sequences, FiniteSets, TLC

\* ------------------------------------------------------------------ bounds

\* Longest textarea content the model enumerates.
MaxLen == 1

\* ------------------------------------------------------------------ texts

\* "a" stands for any permitted character, "$" for any forbidden one.
Chars == {"a", "$"}

ForbiddenChars == {"$"}

Texts == UNION {[1..n -> Chars] : n \in 0..MaxLen}

EmptyText == << >>

\* utils.isValidText: every character of the text is a permitted one.
isValidText(text) ==
    /\ Len(text) > 0
    /\ \A i \in 1..Len(text) : text[i] \notin ForbiddenChars

ForbiddenMsg == "this content includes forbidden characters."

\* The gettext catalog of the page's language.
Catalog == (ForbiddenMsg :> "bu icerik yasakli karakterler iceriyor.")

gettext(msgid) == IF msgid \in DOMAIN Catalog THEN Catalog[msgid] ELSE msgid

\* ------------------------------------------------------------------ the page

Body == "body"

Forms == {"entry_form", "message_form", "search_form"}

Textareas == {"user_content_edit", "message_body"}

Inputs == {"username", "email"}

Others == {"skipper", "fake_button", "key_span", "plain_div"}

Elements == Textareas \cup Inputs \cup Others

Nodes == {Body} \cup Forms \cup Elements

DocOrder ==
    << "body", "skipper", "fake_button", "key_span", "plain_div",
       "search_form", "username", "email",
       "entry_form", "user_content_edit", "message_form", "message_body" >>

Tag(n) ==
    IF n = Body THEN "body"
    ELSE IF n \in Forms THEN "form"
    ELSE IF n \in Textareas THEN "textarea"
    ELSE IF n \in Inputs THEN "input"
    ELSE IF n = "skipper" THEN "a"
    ELSE "div"

Id(n) ==
    IF n = "user_content_edit" THEN "user_content_edit"
    ELSE IF n = "message_body" THEN "message-body"
    ELSE ""

Role(n) == IF n \in {"skipper", "fake_button"} THEN "button" ELSE ""

\* The form an element is a descendant of ("" when it is in none).
FormOf(n) ==
    IF n = "user_content_edit" THEN "entry_form"
    ELSE IF n = "message_body" THEN "message_form"
    ELSE IF n \in Inputs THEN "search_form"
    ELSE ""

\* Class lists as the server renders them.
InitialClasses(n) ==
    IF n \in Textareas THEN {"expandable"}
    ELSE IF n = "username" THEN {"is-invalid"}
    ELSE IF n = "skipper" THEN {"content-skipper"}
    ELSE IF n = "key_span" THEN {"key-clickable"}
    ELSE {}

\* Rendered height, in px, of each textarea before any script runs.
InitialHeight(n) == IF n = "user_content_edit" THEN 60 ELSE 40

Hrefs == {"#content", "/login/"}

HeightOffset == 150

\* ------------------------------------------------------------------ selectors

SelBody == "body"
SelKeyClickable == "[role=button], .key-clickable"
SelSkipper == ".content-skipper"
SelInvalid == "input.is-invalid"
SelExpandable == "textarea.expandable"
SelGuarded == "textarea#user_content_edit, textarea#message-body"
SelForm == "form"
SelUserInput == "#user_content_edit"

Selectors ==
    { SelBody, SelKeyClickable, SelSkipper, SelInvalid, SelExpandable,
      SelGuarded, SelForm, SelUserInput }

\* Element.matches(sel) on a page whose class lists are cls.
Matches(n, sel, cls) ==
    CASE sel = SelBody -> Tag(n) = "body"
      [] sel = SelKeyClickable -> Role(n) = "button" \/ "key-clickable" \in cls[n]
      [] sel = SelSkipper -> "content-skipper" \in cls[n]
      [] sel = SelInvalid -> Tag(n) = "input" /\ "is-invalid" \in cls[n]
      [] sel = SelExpandable -> Tag(n) = "textarea" /\ "expandable" \in cls[n]
      [] sel = SelGuarded ->
            Tag(n) = "textarea" /\ Id(n) \in {"user_content_edit", "message-body"}
      [] sel = SelForm -> Tag(n) = "form"
      [] sel = SelUserInput -> Id(n) = "user_content_edit"
      [] OTHER -> FALSE

NoNode == "(none)"

\* document.querySelectorAll(sel)
many(sel, cls) == {n \in Nodes : Matches(n, sel, cls)}

\* document.querySelector(sel): the first match in document order.
one(sel, cls) ==
    IF many(sel, cls) = {} THEN NoNode
    ELSE DocOrder[CHOOSE i \in 1..Len(DocOrder) :
            /\ DocOrder[i] \in many(sel, cls)
            /\ \A j \in 1..(i - 1) : DocOrder[j] \notin many(sel, cls)]

\* form.querySelector(sel): the first descendant of the form that matches.
querySelector(form, sel, cls) ==
    LET found == {n \in many(sel, cls) : FormOf(n) = form}
    IN  IF found = {} THEN NoNode
        ELSE DocOrder[CHOOSE i \in 1..Len(DocOrder) :
                /\ DocOrder[i] \in found
                /\ \A j \in 1..(i - 1) : DocOrder[j] \notin found]

\* ------------------------------------------------------------------ listeners

Listener(node, type, fn, options) ==
    [node |-> node, type |-> type, fn |-> fn, once |-> options.once]

NoOptions == [once |-> FALSE]

\* utils.Handle: binds the callback on one node, given as a node or a selector.
Handle(node, type, fn, options, cls) ==
    LET n == IF node \in Selectors THEN one(node, cls) ELSE node
    IN  IF n = NoNode THEN {} ELSE {Listener(n, type, fn, options)}

\* utils.Handler: binds the callback on every node the selector matches.
Handler(nodes, type, fn, options, cls) ==
    {Listener(n, type, fn, options) : n \in many(nodes, cls)}

FocusOptionsNotOnce == [once |-> FALSE]

\* The options of the focus binding.
FocusOptions == [once |-> TRUE]

TransitionEndOptionsOnce == [once |-> TRUE]

\* The transitionend binding is given no options.
TransitionEndOptions == NoOptions

\* The bindings the file makes when it is loaded.
Bindings(cls) ==
    Handle(SelBody, "keypress", "keyActivate", NoOptions, cls)
      \cup Handle(SelSkipper, "click", "skipContent", NoOptions, cls)
      \cup Handler(SelInvalid, "input", "resetInvalid", NoOptions, cls)
      \cup Handler(SelExpandable, "focus", "expand", FocusOptions, cls)
      \cup Handler(SelGuarded, "input", "armGuard", NoOptions, cls)
      \cup Handler(SelForm, "submit", "validate", NoOptions, cls)

\* ------------------------------------------------------------------ state

VARIABLES
    value,            \* textarea -> its current text
    classList,        \* node -> its set of classes
    dataHref,         \* the data-href attribute of the content skipper
    styleHeight,      \* textarea -> inline style.height in px (0: not set)
    offsetHeight,     \* textarea -> rendered height in px
    transition,       \* textarea -> inline style.transition ("": not set)
    listeners,        \* the registered event listeners
    onbeforeunload,   \* window.onbeforeunload
    location,         \* the URL last given to location.replace
    unloaded,         \* the page has been left
    event,            \* the last event dispatched
    handled,          \* the callbacks the last event ran, in order
    defaultPrevented, \* the last event's preventDefault was called
    returned,         \* what the last submit callback returned
    notifications,    \* the notify calls made while handling the last event
    dispatched,       \* the events dispatched while handling the last event
    prompted,         \* the last unload attempt showed the warning prompt
    lastWriter,       \* the most recent textarea input or form submit event
    pc                \* the callback in progress and the line it has reached

domVars == << classList, dataHref, styleHeight, offsetHeight, transition >>

logVars == << event, handled, defaultPrevented, returned, notifications,
              dispatched, prompted >>

vars == << value, classList, dataHref, styleHeight, offsetHeight, transition,
           listeners, onbeforeunload, location, unloaded, event, handled,
           defaultPrevented, returned, notifications, dispatched, prompted,
           lastWriter, pc >>

\* ------------------------------------------------------------------ the unload guard

GuardAbsent == [kind |-> "absent", node |-> NoNode]

\* () => this.value || null
GuardConditional(this) == [kind |-> "conditional", node |-> this]

\* () => true
GuardAlways == [kind |-> "always", node |-> NoNode]

\* What the guard returns when the page is about to unload: "null" lets
\* the page go, anything else makes the browser prompt.
GuardReturn(guard, val) ==
    CASE guard.kind = "absent" -> "null"
      [] guard.kind = "conditional" ->
            IF val[guard.node] # EmptyText THEN "string" ELSE "null"
      [] guard.kind = "always" -> "true"

NoEvent == [kind |-> "load", target |-> NoNode, key |-> ""]

NoWriter == [kind |-> "none", node |-> NoNode]

\* No callback is in progress.
Idle == [form |-> NoNode, at |-> "idle"]

Init ==
    /\ value = [t \in Textareas |-> EmptyText]
    /\ classList = [n \in Nodes |-> InitialClasses(n)]
    /\ dataHref \in Hrefs
    /\ styleHeight = [t \in Textareas |-> 0]
    /\ offsetHeight = [t \in Textareas |-> InitialHeight(t)]
    /\ transition = [t \in Textareas |-> ""]
    /\ listeners = Bindings(classList)
    /\ onbeforeunload = GuardAbsent
    /\ location = "/"
    /\ unloaded = FALSE
    /\ event = NoEvent
    /\ handled = << >>
    /\ defaultPrevented = FALSE
    /\ returned = "undefined"
    /\ notifications = << >>
    /\ dispatched = << >>
    /\ prompted = FALSE
    /\ lastWriter = NoWriter
    /\ pc = Idle

\* ------------------------------------------------------------------ dispatch

ListenersOn(node, type) == {l \in listeners : l.node = node /\ l.type = type}

Registered(node, type, fn) == \E l \in ListenersOn(node, type) : l.fn = fn

\* A listener bound with once is removed when it is invoked.
AfterDispatch(ran) == listeners \ {l \in ran : l.once}


Logged(ev, ran, prevented, ret, notes, sent, prompt) ==
    /\ event' = ev
    /\ handled' = ran
    /\ defaultPrevented' = prevented
    /\ returned' = ret
    /\ notifications' = notes
    /\ dispatched' = sent
    /\ prompted' = prompt

YieldsAfterNotify(at) == at = "notified"

\* Whether the callback in progress gives control back to the event loop
\* at the line it has reached: no callback of the file awaits or yields.
YieldsAt(at) == FALSE

\* The event loop can dispatch the next event: the page is loaded and no
\* callback is in the middle of its run.
Ready == ~unloaded /\ (pc = Idle \/ YieldsAt(pc.at))

\* ------------------------------------------------------------------ unsaved-edit guard

ArmGuardSnapshot(this, val) ==
    IF val[this] # EmptyText THEN GuardAlways ELSE GuardAbsent

ArmGuardUnboundThis(this, val) == GuardConditional("window")

ArmGuardFirstTextarea(this, val) == GuardConditional("user_content_edit")

\* The guard the textarea input callback installs; val is the page's
\* textarea contents when the callback runs.
ArmGuard(this, val) == GuardConditional(this)

\* An input event on a textarea: the user has edited it to hold v.
InputTextarea(t, v) ==
    /\ Ready
    /\ LET arm == Registered(t, "input", "armGuard")
           val == [value EXCEPT ![t] = v]
       IN  /\ value' = val
           /\ onbeforeunload' = IF arm THEN ArmGuard(t, val) ELSE onbeforeunload
           /\ lastWriter' = IF arm THEN [kind |-> "input", node |-> t]
                                   ELSE lastWriter
           /\ Logged([kind |-> "input", target |-> t, key |-> ""],
                     IF arm THEN << "armGuard" >> ELSE << >>,
                     FALSE, "undefined", << >>, << >>, FALSE)
    /\ UNCHANGED << pc, domVars, listeners, location, unloaded >>

\* A page script assigns the textarea's value; no input event is fired.
SetValue(t, v) ==
    /\ Ready
    /\ v # value[t]
    /\ value' = [value EXCEPT ![t] = v]
    /\ Logged([kind |-> "assign", target |-> t, key |-> ""],
              << >>, FALSE, "undefined", << >>, << >>, FALSE)
    /\ UNCHANGED << pc, domVars, listeners, onbeforeunload, location, unloaded,
                    lastWriter >>

\* The submit callback rejects the form: it holds a #user_content_edit
\* whose value is non-empty and not valid text.
Rejects(form) ==
    LET userInput == querySelector(form, SelUserInput, classList)
    IN  /\ userInput # NoNode
        /\ value[userInput] # EmptyText
        /\ ~isValidText(value[userInput])

SubmitGuardNotCleared(form, guard) ==
    IF Rejects(form) THEN GuardAlways ELSE guard

SubmitGuardNotRearmed(form, guard) == GuardAbsent

\* window.onbeforeunload when the submit callback returns; guard is its
\* value when the callback starts.
SubmitGuard(form, guard) ==
    IF Rejects(form) THEN GuardAlways ELSE GuardAbsent

\* The notify calls of the submit callback.
SubmitNotes(form) ==
    IF Rejects(form)
    THEN << [message |-> gettext(ForbiddenMsg), level |-> "error"] >>
    ELSE << >>

SubmitPreventedAlways(form) == TRUE

\* Whether the submit callback calls event.preventDefault().
SubmitPrevented(form) == Rejects(form)

\* A submit event on a form.
Submit(form) ==
    /\ Ready
    /\ LET ran == Registered(form, "submit", "validate")
       IN  /\ onbeforeunload' =
                 IF ran THEN SubmitGuard(form, onbeforeunload) ELSE onbeforeunload
           /\ lastWriter' =
                 IF ~ran THEN lastWriter
                 ELSE [kind |-> IF Rejects(form) THEN "rejected" ELSE "accepted",
                       node |-> form]
           /\ Logged([kind |-> "submit", target |-> form, key |-> ""],
                     IF ran THEN << "validate" >> ELSE << >>,
                     ran /\ SubmitPrevented(form),
                     IF ran /\ Rejects(form) THEN "false" ELSE "undefined",
                     IF ran THEN SubmitNotes(form) ELSE << >>,
                     << >>, FALSE)
    /\ UNCHANGED << pc, value, domVars, listeners, location, unloaded >>

\* The user tries to leave the page; when the guard makes the browser
\* prompt, the user either stays or leaves.
Unload(leave) ==
    /\ Ready
    /\ LET prompt == GuardReturn(onbeforeunload, value) # "null"
       IN  /\ Logged([kind |-> "beforeunload", target |-> NoNode, key |-> ""],
                     << >>, FALSE, "undefined", << >>, << >>, prompt)
           /\ unloaded' = IF prompt THEN leave ELSE TRUE
    /\ UNCHANGED << pc, value, domVars, listeners, onbeforeunload, location,
                    lastWriter >>

\* ------------------------------------------------------------------ the submit callback, line by line

\* The submit callback starts: it clears window.onbeforeunload.
SubmitBegin(form) ==
    /\ Ready
    /\ pc = Idle
    /\ Registered(form, "submit", "validate")
    /\ onbeforeunload' = GuardAbsent
    /\ pc' = [form |-> form, at |-> "cleared"]
    /\ lastWriter' = [kind |-> IF Rejects(form) THEN "rejected" ELSE "accepted",
                      node |-> form]
    /\ Logged([kind |-> "submit", target |-> form, key |-> ""],
              << "validate" >>, FALSE, "undefined", << >>, << >>, FALSE)
    /\ UNCHANGED << value, domVars, listeners, location, unloaded >>

\* The callback has found forbidden content and calls notify.
SubmitNotify ==
    /\ pc.at = "cleared"
    /\ Rejects(pc.form)
    /\ notifications' = SubmitNotes(pc.form)
    /\ pc' = [pc EXCEPT !.at = "notified"]
    /\ UNCHANGED << value, domVars, listeners, onbeforeunload, location,
                    unloaded, event, handled, defaultPrevented, returned,
                    dispatched, prompted, lastWriter >>

\* The callback re-arms the guard, cancels the submission and returns false.
SubmitCancel ==
    /\ pc.at = "notified"
    /\ onbeforeunload' = GuardAlways
    /\ defaultPrevented' = TRUE
    /\ returned' = "false"
    /\ pc' = Idle
    /\ UNCHANGED << value, domVars, listeners, location, unloaded, event,
                    handled, notifications, dispatched, prompted, lastWriter >>

\* The callback has nothing to reject and returns.
SubmitPass ==
    /\ pc.at = "cleared"
    /\ ~Rejects(pc.form)
    /\ pc' = Idle
    /\ UNCHANGED << value, domVars, listeners, onbeforeunload, location,
                    unloaded, logVars, lastWriter >>

\* ------------------------------------------------------------------ keyboard activation

Keys == {" ", "Enter", "a"}

KeyActivatesAnyKey(target, key) == Matches(target, SelKeyClickable, classList)

\* The condition of the keypress callback.
KeyActivates(target, key) ==
    /\ Matches(target, SelKeyClickable, classList)
    /\ (key = " " \/ key = "Enter")

KeyClicksTwice(target, key) ==
    IF KeyActivates(target, key)
    THEN << [type |-> "click", target |-> target],
            [type |-> "click", target |-> target] >>
    ELSE << >>

\* The events the keypress callback dispatches.
KeyClicks(target, key) ==
    IF KeyActivates(target, key)
    THEN << [type |-> "click", target |-> target] >>
    ELSE << >>

\* The data-href attribute of a node ("" when it has none).
getDataHref(n) == IF n = "skipper" THEN dataHref ELSE ""

SkipToHref(this) == "#content"

\* Where the click callback of the content skipper sends the page.
SkipTo(this) == getDataHref(this)

\* The location after a click event has reached the node's listeners.
AfterClick(target) ==
    IF Registered(target, "click", "skipContent") THEN SkipTo(target)
    ELSE location

\* A keypress event on an element, bubbling to the body.
Keypress(target, key) ==
    /\ Ready
    /\ LET ran == Registered(Body, "keypress", "keyActivate")
           sent == IF ran THEN KeyClicks(target, key) ELSE << >>
           skip == sent # << >> /\ Registered(target, "click", "skipContent")
       IN  /\ location' = IF sent # << >> THEN AfterClick(target) ELSE location
           /\ Logged([kind |-> "keypress", target |-> target, key |-> key],
                     (IF ran THEN << "keyActivate" >> ELSE << >>)
                        \o [i \in 1..(IF skip THEN Len(sent) ELSE 0) |-> "skipContent"],
                     ran /\ KeyActivates(target, key),
                     "undefined", << >>, sent, FALSE)
    /\ UNCHANGED << pc, value, domVars, listeners, onbeforeunload, unloaded,
                    lastWriter >>

\* A click event on an element.
Click(target) ==
    /\ Ready
    /\ location' = AfterClick(target)
    /\ Logged([kind |-> "click", target |-> target, key |-> ""],
              IF Registered(target, "click", "skipContent")
                 THEN << "skipContent" >> ELSE << >>,
              FALSE, "undefined", << >>, << >>, FALSE)
    /\ UNCHANGED << pc, value, domVars, listeners, onbeforeunload, unloaded,
                    lastWriter >>

\* ------------------------------------------------------------------ invalid-input reset

ResetInvalidKeeps(classes) == classes

\* The class list after the input callback of an input.is-invalid.
ResetInvalid(classes) == classes \ {"is-invalid"}

\* An input event on an input field.
InputField(i) ==
    /\ Ready
    /\ LET ran == Registered(i, "input", "resetInvalid")
       IN  /\ classList' = IF ran
                             THEN [classList EXCEPT ![i] = ResetInvalid(@)]
                             ELSE classList
           /\ Logged([kind |-> "input", target |-> i, key |-> ""],
                     IF ran THEN << "resetInvalid" >> ELSE << >>,
                     FALSE, "undefined", << >>, << >>, FALSE)
    /\ UNCHANGED << pc, value, dataHref, styleHeight, offsetHeight, transition,
                    listeners, onbeforeunload, location, unloaded, lastWriter >>

\* Server-side or script validation marks the field invalid again.
ApplyInvalid(i) ==
    /\ Ready
    /\ "is-invalid" \notin classList[i]
    /\ classList' = [classList EXCEPT ![i] = @ \cup {"is-invalid"}]
    /\ Logged([kind |-> "mark", target |-> i, key |-> ""],
              << >>, FALSE, "undefined", << >>, << >>, FALSE)
    /\ UNCHANGED << pc, value, dataHref, styleHeight, offsetHeight, transition,
                    listeners, onbeforeunload, location, unloaded, lastWriter >>

\* ------------------------------------------------------------------ textarea auto-expand

\* style.height the focus callback sets, from the rendered height.
Expanded(height) == height + HeightOffset

\* A focus event on a field.
Focus(n) ==
    /\ Ready
    /\ LET ran == ListenersOn(n, "focus")
           expand == Registered(n, "focus", "expand")
       IN  /\ styleHeight' = IF expand
                               THEN [styleHeight EXCEPT ![n] = Expanded(offsetHeight[n])]
                               ELSE styleHeight
           /\ offsetHeight' = IF expand
                                THEN [offsetHeight EXCEPT ![n] = Expanded(offsetHeight[n])]
                                ELSE offsetHeight
           /\ listeners' =
                 IF expand
                 THEN AfterDispatch(ran) \cup
                      Handle(n, "transitionend", "stopTransition",
                             TransitionEndOptions, classList)
                 ELSE listeners
           /\ Logged([kind |-> "focus", target |-> n, key |-> ""],
                     IF expand THEN << "expand" >> ELSE << >>,
                     FALSE, "undefined", << >>, << >>, FALSE)
    /\ UNCHANGED << pc, value, classList, dataHref, transition, onbeforeunload,
                    location, unloaded, lastWriter >>

\* A transitionend event on a textarea.
TransitionEnd(t) ==
    /\ Ready
    /\ LET ran == ListenersOn(t, "transitionend")
           stop == Registered(t, "transitionend", "stopTransition")
       IN  /\ transition' = IF stop THEN [transition EXCEPT ![t] = "none"]
                             ELSE transition
           /\ listeners' = AfterDispatch(ran)
           /\ Logged([kind |-> "transitionend", target |-> t, key |-> ""],
                     IF stop THEN << "stopTransition" >> ELSE << >>,
                     FALSE, "undefined", << >>, << >>, FALSE)
    /\ UNCHANGED << pc, value, classList, dataHref, styleHeight, offsetHeight,
                    onbeforeunload, location, unloaded, lastWriter >>

\* ------------------------------------------------------------------ specifications

NextGuard ==
    \/ \E t \in Textareas, v \in Texts : InputTextarea(t, v)
    \/ \E t \in Textareas, v \in Texts : SetValue(t, v)
    \/ \E f \in Forms : Submit(f)
    \/ \E leave \in BOOLEAN : Unload(leave)

NextDom ==
    \/ \E e \in Elements, k \in Keys : Keypress(e, k)
    \/ \E e \in Elements : Click(e)
    \/ \E i \in Inputs : InputField(i)
    \/ \E i \in Inputs : ApplyInvalid(i)
    \/ \E n \in Textareas \cup Inputs : Focus(n)
    \/ \E t \in Textareas : TransitionEnd(t)

Next == NextGuard \/ NextDom

\* The unsaved-edit guard: textarea input, form submit, unload attempts.
SpecGuard == Init /\ [][NextGuard]_vars

\* Keyboard activation, content skip, invalid reset, textarea expand.
SpecDom == Init /\ [][NextDom]_vars

NextSteps ==
    \/ \E t \in Textareas, v \in Texts : InputTextarea(t, v)
    \/ \E t \in Textareas, v \in Texts : SetValue(t, v)
    \/ \E f \in Forms : SubmitBegin(f)
    \/ SubmitNotify
    \/ SubmitCancel
    \/ SubmitPass
    \/ \E leave \in BOOLEAN : Unload(leave)

\* The unsaved-edit guard with the submit callback run line by line.
SpecSteps == Init /\ [][NextSteps]_vars

NextKey ==
    \/ \E e \in Elements, k \in Keys : Keypress(e, k)
    \/ \E v \in Texts : InputTextarea("user_content_edit", v)
    \/ \E f \in Forms : Submit(f)
    \/ \E i \in Inputs : InputField(i)
    \/ \E i \in Inputs : ApplyInvalid(i)
    \/ \E t \in Textareas : Focus(t)

\* Keypresses on a page whose guard, class lists and heights vary.
SpecKey == Init /\ [][NextKey]_vars

Spec == Init /\ [][Next]_vars


\* ------------------------------------------------------------------ properties

UserContent == "user_content_edit"

\* The last event was a submit of a form that holds a #user_content_edit
\* whose value is non-empty and is not valid text.
SubmittedForbidden ==
    /\ event.kind = "submit"
    /\ FormOf(UserContent) = event.target
    /\ value[UserContent] # EmptyText
    /\ ~isValidText(value[UserContent])

\* The last event was any other submit.
SubmittedClean == event.kind = "submit" /\ ~SubmittedForbidden

\* C1: after the submit of a form whose #user_content_edit holds non-empty
\* text that isValidText rejects, the submission is cancelled
\* (preventDefault called, false returned), notify was called exactly once
\* with the localized forbidden-characters message and "error", and the
\* unload guard warns whatever the textareas contain.
C1_RejectedSubmit ==
    SubmittedForbidden =>
        /\ defaultPrevented
        /\ returned = "false"
        /\ notifications =
              << [message |-> gettext(ForbiddenMsg), level |-> "error"] >>
        /\ \A val \in [Textareas -> Texts] :
              GuardReturn(onbeforeunload, val) = "true"

C1_Witness ==
    /\ SubmittedForbidden
    /\ handled = << "validate" >>
    /\ onbeforeunload = GuardAlways

\* C2: after the submit of a form that holds no #user_content_edit, or an
\* empty one, or one whose value is valid text, the submission is not
\* cancelled, nothing is notified and no unload guard is left.
C2_CleanSubmit ==
    SubmittedClean =>
        /\ ~defaultPrevented
        /\ returned = "undefined"
        /\ notifications = << >>
        /\ onbeforeunload = GuardAbsent

C2_Witness ==
    /\ SubmittedClean
    /\ event.target = FormOf(UserContent)
    /\ isValidText(value[UserContent])
    /\ value["message_body"] # EmptyText
    /\ onbeforeunload = GuardAbsent

\* C3: while the guard installed by an input event on
\* textarea#user_content_edit is in place, an unload attempt prompts if
\* and only if the textarea's value at that moment is non-empty.
C3_PromptIffNonEmpty ==
    (/\ event.kind = "beforeunload"
     /\ lastWriter = [kind |-> "input", node |-> UserContent])
        => (prompted <=> value[UserContent] # EmptyText)

C3_Witness ==
    /\ event.kind = "beforeunload"
    /\ lastWriter = [kind |-> "input", node |-> UserContent]
    /\ value[UserContent] = EmptyText
    /\ ~prompted
    /\ unloaded

\* C4: window.onbeforeunload is always one of: absent, the conditional
\* guard of a textarea the input callback is bound on, or always-warn;
\* before any event it is absent.
C4_GuardKinds ==
    /\ onbeforeunload \in
          {GuardAbsent, GuardAlways}
             \cup {GuardConditional(t) : t \in many(SelGuarded, classList)}
    /\ event = NoEvent => onbeforeunload = GuardAbsent

C4_Witness ==
    /\ onbeforeunload = GuardConditional("message_body")
    /\ event.kind = "beforeunload"
    /\ prompted

\* C5: a keypress of Space or Enter on an element matching
\* [role=button], .key-clickable has its default prevented and dispatches
\* exactly one click event, on that element.
C5_OneClickPerKeypress ==
    (/\ event.kind = "keypress"
     /\ Matches(event.target, SelKeyClickable, classList)
     /\ event.key \in {" ", "Enter"})
        => /\ defaultPrevented
           /\ dispatched = << [type |-> "click", target |-> event.target] >>

C5_Witness ==
    /\ event = [kind |-> "keypress", target |-> "key_span", key |-> " "]
    /\ Len(dispatched) = 1

\* C6: the first focus of a textarea.expandable sets its height to its
\* initial height plus 150px, no later focus changes it, and a textarea
\* that has not been focused keeps its own one-time focus listener.
C6_ExpandOnce ==
    \A t \in many(SelExpandable, classList) :
        /\ styleHeight[t] \in {0, InitialHeight(t) + 150}
        /\ styleHeight[t] = 0 <=> Registered(t, "focus", "expand")
        /\ (event.kind = "focus" /\ event.target = t)
              => styleHeight[t] = InitialHeight(t) + 150

C6_Witness ==
    /\ event = [kind |-> "focus", target |-> UserContent, key |-> ""]
    /\ handled = << >>
    /\ styleHeight[UserContent] = InitialHeight(UserContent) + 150
    /\ styleHeight["message_body"] = 0

BoundInvalid(i) == Registered(i, "input", "resetInvalid")

\* C7: an input event on an element bound as input.is-invalid leaves it
\* without the class is-invalid; when the class was already gone the event
\* changes nothing; and the binding stays, so a class applied again is
\* removed by the next input event.
C7_ResetInvalid ==
    [][ /\ \A i \in Inputs : BoundInvalid(i) => BoundInvalid(i)'
        /\ \A i \in Inputs :
              (BoundInvalid(i) /\ event'.kind = "input" /\ event'.target = i)
                 => /\ "is-invalid" \notin classList'[i]
                    /\ handled' = << "resetInvalid" >>
                    /\ "is-invalid" \notin classList[i] =>
                          UNCHANGED << value, domVars, listeners,
                                       onbeforeunload, location, unloaded >>
      ]_vars

C7_Witness ==
    /\ event = [kind |-> "input", target |-> "username", key |-> ""]
    /\ handled = << "resetInvalid" >>
    /\ "is-invalid" \notin classList["username"]
    /\ "is-invalid" \in classList["email"]

\* The last event delivered a click to node n: a click on it, or a
\* keypress that dispatched one on it.
Clicked(n) ==
    \/ event.kind = "click" /\ event.target = n
    \/ /\ event.kind = "keypress"
       /\ [type |-> "click", target |-> n] \in {dispatched[k] : k \in DOMAIN dispatched}

StopBound(t) == Registered(t, "transitionend", "stopTransition")

\* C9 as claimed: the transitionend listener sets transition to "none"
\* when it runs and is then deregistered.
C9_OneTimeListener ==
    \A t \in Textareas :
        (/\ event.kind = "transitionend"
         /\ event.target = t
         /\ handled = << "stopTransition" >>)
            => transition[t] = "none" /\ ~StopBound(t)

\* C9, amended: the first focus binds the transitionend listener once; it
\* sets transition to "none" on every transitionend event of the textarea
\* and stays registered after it has run.
C9_ListenerStays ==
    \A t \in many(SelExpandable, classList) :
        /\ StopBound(t) <=> ~Registered(t, "focus", "expand")
        /\ Cardinality(ListenersOn(t, "transitionend")) <= 1
        /\ transition[t] = "none" => StopBound(t)
        /\ (event.kind = "transitionend" /\ event.target = t /\ StopBound(t))
              => handled = << "stopTransition" >> /\ transition[t] = "none"

C9_Witness ==
    /\ event = [kind |-> "transitionend", target |-> UserContent, key |-> ""]
    /\ handled = << "stopTransition" >>
    /\ transition[UserContent] = "none"
    /\ StopBound(UserContent)

\* The guard the most recent textarea input or form submit leaves.
WrittenBy(w) ==
    CASE w.kind = "none" -> GuardAbsent
      [] w.kind = "input" -> GuardConditional(w.node)
      [] w.kind = "rejected" -> GuardAlways
      [] w.kind = "accepted" -> GuardAbsent

\* C10: the unload guard is the one the most recent textarea input or form
\* submit event installs (input: conditional on that textarea; rejected
\* submit: always warn; other submit: absent); unload attempts leave it;
\* an input after a rejected submit installs the conditional guard, and
\* the page then unloads without a prompt when that textarea is empty.
C10_LastWriterWins ==
    /\ [](onbeforeunload = WrittenBy(lastWriter))
    /\ [][event'.kind = "beforeunload" => onbeforeunload' = onbeforeunload]_vars
    /\ [][(/\ onbeforeunload = GuardAlways
           /\ event'.kind = "input"
           /\ event'.target \in many(SelGuarded, classList))
             => onbeforeunload' = GuardConditional(event'.target)]_vars
    /\ []((/\ event.kind = "beforeunload"
           /\ lastWriter.kind = "input"
           /\ value[lastWriter.node] = EmptyText) => ~prompted)

C10_Witness ==
    /\ event.kind = "beforeunload"
    /\ lastWriter = [kind |-> "input", node |-> UserContent]
    /\ value[UserContent] = EmptyText
    /\ value["message_body"] # EmptyText
    /\ ~prompted


\* C11: an unload attempt that follows a rejected submit, with no input or
\* submit event in between, finds the always-warn guard and prompts; it
\* never runs while the submit callback is between clearing the guard and
\* re-arming it.
C11_NoIntermediateUnload ==
    (event.kind = "beforeunload" /\ lastWriter.kind = "rejected")
        => /\ pc = Idle
           /\ onbeforeunload = GuardAlways
           /\ prompted

C11_Witness ==
    /\ event.kind = "beforeunload"
    /\ lastWriter = [kind |-> "rejected", node |-> FormOf(UserContent)]
    /\ onbeforeunload = GuardAlways
    /\ prompted
    /\ ~unloaded


\* C12: a keypress whose target does not match [role=button],
\* .key-clickable, or whose key is neither Space nor Enter, prevents no
\* default and dispatches no click; and no keypress changes the unload
\* guard, a class list or a height.
C12_KeypressFrame ==
    [][event'.kind = "keypress" =>
         /\ UNCHANGED << onbeforeunload, classList, styleHeight, offsetHeight >>
         /\ ~(/\ Matches(event'.target, SelKeyClickable, classList)
              /\ event'.key \in {" ", "Enter"})
               => (~defaultPrevented' /\ dispatched' = << >>)
      ]_vars

C12_Witness ==
    /\ event = [kind |-> "keypress", target |-> "fake_button", key |-> "a"]
    /\ ~defaultPrevented
    /\ dispatched = << >>
    /\ onbeforeunload = GuardAlways
    /\ "is-invalid" \in classList["email"]
    /\ styleHeight[UserContent] = InitialHeight(UserContent) + 150


\* C13: the conditional guard consults only the textarea of the most
\* recent input event: an unload attempt prompts if and only if that
\* textarea's current value is non-empty, whatever the other textarea holds.
C13_OnlyLastTextarea ==
    \A t \in many(SelGuarded, classList) :
        (/\ event.kind = "beforeunload"
         /\ lastWriter = [kind |-> "input", node |-> t])
            => /\ onbeforeunload = GuardConditional(t)
               /\ prompted <=> value[t] # EmptyText

C13_Witness ==
    /\ event.kind = "beforeunload"
    /\ lastWriter = [kind |-> "input", node |-> "message_body"]
    /\ value["message_body"] = EmptyText
    /\ value[UserContent] # EmptyText
    /\ ~prompted
    /\ unloaded

====
